---- MODULE Spec2Model ----
(***************************************************************************)
(* panik: application-wide panic handling (src/src/lib.rs).                *)
(*                                                                         *)
(* The model follows the global STATE (a mutex around the list of panics,  *)
(* the backtrace resolution limit and the is_running flag), the process'   *)
(* panic hook slot, and every thread's position in                         *)
(* run_and_handle_panics_with_maybe_debug, GlobalStateGuard::init,         *)
(* GlobalStateGuard::drop and register_panic.                              *)
(***************************************************************************)
EXTENDS Integers, Sequences, FiniteSets, TLC

\* ------------------------------------------------------------------ bounds
MaxPanics == 3     \* panics recorded or on their way into the registry at one time
MaxDepth == 2      \* run_and_handle_panics frames on one thread's stack
MaxBudget == 1     \* largest limit handed to Builder::backtrace_resolution_limit

\* ------------------------------------------------------- program constants
DEFAULT_BACKTRACE_RESOLUTION_LIMIT == 8

NestedMsg == "nested calls to panik::run_and_handle_panics are not supported"

Unprintable == "<unprintable>"

\* ------------------------------------------------------------ environment
\* Threads that call run_and_handle_panics, and all threads (w1 only panics).
Callers == {"t1", "t2"}

Threads == Callers \cup {"w1"}

\* Payloads: of a panic in a work closure, and of a panic on a thread that
\* is in no run (tests/multiple_threads.rs).
WorkMsgs == {"me too"}

ThreadMsgs == {"uh oh"}

AllMsgs == WorkMsgs \cup ThreadMsgs \cup {NestedMsg}

Results == {5, 100}

NoCfg == -1

Budgets == 0..MaxBudget

\* Option<R> and the Result of catch_unwind, as tuples.
None == <<"None">>

Some(r) == <<"Some", r>>

Unset == <<"Unset">>

Ok(r) == <<"Ok", r>>

Err(m) == <<"Err", m>>

IsOk(res) == res[1] = "Ok"

IsErr(res) == res[1] = "Err"

VARIABLES
    panics,      \* State.panics: the records, in push order
    limit,       \* State.backtrace_resolution_limit
    is_running,  \* State.is_running
    lock,        \* holder of the STATE mutex, "" when free
    hook,        \* the panic hook slot: "default" or "panik" (register_panic)
    stack,       \* per thread: its run_and_handle_panics frames, innermost last
    pst,         \* per thread: position of its panic inside the hook
    pmsg,        \* per thread: payload of the panic being handled
    aborted,     \* history: a panic was raised since the last successful acquisition
    raised,      \* history: per (thread, payload), the panics handed to
                 \* register_panic since the last successful acquisition
    snapshot,    \* the Vec that the last call of panics() returned
    last         \* history: the acquisition or return made by the step just taken

vars == <<panics, limit, is_running, lock, hook, stack, pst, pmsg, aborted, raised, snapshot, last>>

\* ---------------------------------------------------------------- helpers
Top(s) == s[Len(s)]

Pop(s) == SubSeq(s, 1, Len(s) - 1)

SetTop(s, f) == [s EXCEPT ![Len(s)] = f]

AtPc(t, p) == stack[t] # <<>> /\ Top(stack[t]).pc = p

\* A panic hook invocation holds the hook slot for reading until it returns;
\* set_hook and take_hook wait for all of them.
HookIdle == \A t \in Threads : pst[t] = "none"

\* Panics that may still reach the registry: calls that init may reject and
\* hooks that have not pushed yet. Room keeps the registry within MaxPanics.
Pending ==
    Cardinality({t \in Threads :
        \/ pst[t] # "none"
        \/ AtPc(t, "apply") \/ AtPc(t, "init") \/ AtPc(t, "rejected")})

Room == Len(panics) + Pending < MaxPanics

NoneRaised == [k \in Threads \X AllMsgs |-> 0]

NoCall == [ev |-> "NoCall"]

\* init on thread t succeeded and cleared n records.
Acquired(t, n) == [ev |-> "Acquired", t |-> t, cleared |-> n]

\* panics() on thread t returned.
Queried(t) == [ev |-> "Queried", t |-> t]

\* has_panicked() on thread t returned r.
Asked(t, r) == [ev |-> "Asked", t |-> t, r |-> r]

\* register_panic on thread t has emitted its log_error! line.
Logged(t) == [ev |-> "Logged", t |-> t]

\* The call with locals f on thread t has matched on (result, is_empty) and,
\* when records were there, logged and resolved them.
Reconciled(t, f) == [ev |-> "Reconciled", t |-> t, f |-> f]

\* The call with locals f on thread t returned f.ret; ps and lim are the
\* records and the limit its guard's drop found.
Returned(t, f, ps, lim) == [ev |-> "Returned", t |-> t, f |-> f, panics |-> ps, limit |-> lim]

\* One call of run_and_handle_panics_with_maybe_debug: its position and its
\* locals. dbg tells run_and_handle_panics from the _no_debug entry point,
\* cfg is the Builder's limit (NoCfg without a Builder), seen is whether the
\* registry held a record when do_me ended (history), lim is the local
\* backtrace_resolution_limit of line 347, taken is the local panics of
\* line 348, prev is the limit that apply_settings overwrote while a run was
\* armed (history).
NewFrame(dbg, cfg) ==
    [pc |-> IF cfg = NoCfg THEN "init" ELSE "apply",
     dbg |-> dbg, cfg |-> cfg, result |-> Unset, seen |-> FALSE,
     swallowed |-> "", lim |-> NoCfg, taken |-> <<>>, prev |-> NoCfg, ret |-> Unset]

\* Where a panic lands once the hook has returned: the catch_unwind of the
\* innermost frame (its closure was running), or the top of the thread.
\* The locals that are consumed by the match and the logging of lines 323-345
\* (format_swallowed, the Builder, the swallowed text) hold nothing afterwards.
Consumed(f) == [f EXCEPT !.dbg = FALSE, !.cfg = NoCfg, !.swallowed = ""]

Unwind(s, m, seen) ==
    IF s = <<>> THEN s
    ELSE SetTop(s, [Top(s) EXCEPT !.result = Err(m), !.seen = seen, !.pc = "reconcile"])

\* A register_panic that records the thread of the main run instead of
\* std::thread::current().
PanicOnMain(message, tid) ==
    [message |-> message, thread_id |-> "t1", backtrace_resolved |-> FALSE]

\* A register_panic that marks the backtrace it captured as resolved.
PanicResolved(message, tid) ==
    [message |-> message, thread_id |-> tid, backtrace_resolved |-> TRUE]

\* The record register_panic builds (lines 251-257).
Panic(message, tid) ==
    [message |-> message, thread_id |-> tid, backtrace_resolved |-> FALSE]

\* A register_panic that overwrites the list instead of pushing.
PushOverwrites(ps, rec) == <<rec>>

\* A register_panic that drops the record.
PushNothing(ps, rec) == ps

\* state.panics.push (line 251).
Push(ps, rec) == Append(ps, rec)

\* A match whose first arm tests for records instead of for none.
IsEmptyInverted(ps) == ps # <<>>

\* state.panics.is_empty() (line 323).
IsEmpty(ps) == ps = <<>>

\* An init without the nesting check.
NestedNeverChecked(running) == FALSE

\* The nesting check of init (line 448).
Nested(running) == running

\* An init that keeps the records of the run before.
ClearKeeps(ps) == ps

\* state.panics.clear() (line 452).
Clear(ps) == <<>>

\* has_panicked() (lines 412-414).
has_panicked == ~IsEmpty(panics)

\* The limit drop writes back (line 468).
DropLimit(lim) == DEFAULT_BACKTRACE_RESOLUTION_LIMIT

\* A drop that leaves the flag as it found it.
DropKeepsRunning(running) == running

\* The flag drop writes back (line 469).
DropRunning(running) == FALSE

format_swallowed(dbg, r) == IF dbg THEN ToString(r) ELSE Unprintable

\* The loop of lines 351-395: the record at (0-based) index i is resolved
\* when i < limit.
ResolveAll(ps, lim) ==
    [i \in DOMAIN ps |->
        IF i - 1 < lim THEN [ps[i] EXCEPT !.backtrace_resolved = TRUE] ELSE ps[i]]

\* ------------------------------------------------------------------- Init
Init ==
    /\ panics = <<>>
    /\ limit = DEFAULT_BACKTRACE_RESOLUTION_LIMIT
    /\ is_running = FALSE
    /\ lock = ""
    /\ hook = "default"
    /\ stack = [t \in Threads |-> <<>>]
    /\ pst = [t \in Threads |-> "none"]
    /\ pmsg = [t \in Threads |-> ""]
    /\ aborted = FALSE
    /\ raised = NoneRaised
    /\ snapshot = <<>>
    /\ last = NoCall

\* ---------------------------------------------------------------- actions

\* A thread raises a panic with payload m on a stack s (already without the
\* frames the panic leaves). The installed hook runs first: register_panic
\* when it is ours, the default hook (which records nothing) otherwise.
RaisePanic(t, m, s) ==
    /\ aborted' = TRUE
    /\ IF hook = "panik"
       THEN /\ pst' = [pst EXCEPT ![t] = "rp_lock"]
            /\ pmsg' = [pmsg EXCEPT ![t] = m]
            /\ raised' = [raised EXCEPT ![<<t, m>>] = @ + 1]
            /\ stack' = [stack EXCEPT ![t] = s]
       ELSE /\ stack' = [stack EXCEPT ![t] = Unwind(s, m, has_panicked)]
            /\ UNCHANGED <<pst, pmsg, raised>>

\* run_and_handle_panics / run_and_handle_panics_no_debug and the Builder's
\* two entry points, called from the top of a thread or from a work closure.
CallRun(t, dbg, cfg) ==
    /\ pst[t] = "none"
    /\ t \in Callers
    /\ stack[t] = <<>> \/ AtPc(t, "work")
    /\ Len(stack[t]) < MaxDepth
    /\ Room
    /\ stack' = [stack EXCEPT ![t] = Append(@, NewFrame(dbg, cfg))]
    /\ last' = NoCall
    /\ UNCHANGED <<panics, limit, is_running, lock, hook, pst, pmsg, aborted, raised, snapshot>>

apply_settings(t) ==
    /\ AtPc(t, "apply")
    /\ lock = ""
    /\ limit' = Top(stack[t]).cfg
    /\ stack' = [stack EXCEPT ![t] = SetTop(@, [Top(@) EXCEPT !.prev = IF is_running THEN limit ELSE NoCfg, !.pc = "init"])]
    /\ last' = NoCall
    /\ UNCHANGED <<panics, is_running, lock, hook, pst, pmsg, aborted, raised, snapshot>>

\* GlobalStateGuard::init up to set_hook: the nesting check, clear and arming,
\* under the mutex. A rejected call releases the mutex before it panics.
GuardInit(t) ==
    /\ AtPc(t, "init")
    /\ lock = ""
    /\ IF Nested(is_running)
       THEN /\ stack' = [stack EXCEPT ![t] = SetTop(@, [Top(@) EXCEPT !.pc = "rejected"])]
            /\ last' = NoCall
            /\ UNCHANGED <<panics, is_running, lock, aborted, raised>>
       ELSE /\ panics' = Clear(panics)
            /\ is_running' = TRUE
            /\ lock' = t
            /\ aborted' = FALSE
            /\ raised' = NoneRaised
            /\ last' = Acquired(t, Len(panics))
            /\ stack' = [stack EXCEPT ![t] = SetTop(@, [Top(@) EXCEPT !.prev = NoCfg, !.pc = "set_hook"])]
    /\ UNCHANGED <<limit, hook, pst, pmsg, snapshot>>

\* The panic! of a rejected init: no guard exists, the frame is gone.
GuardInitPanic(t) ==
    /\ AtPc(t, "rejected")
    /\ RaisePanic(t, NestedMsg, Pop(stack[t]))
    /\ last' = NoCall
    /\ UNCHANGED <<panics, limit, is_running, lock, hook, snapshot>>

\* std::panic::set_hook at the end of init, still under the mutex.
GuardInitSetHook(t) ==
    /\ AtPc(t, "set_hook")
    /\ lock = t
    /\ HookIdle
    /\ hook' = "panik"
    /\ lock' = ""
    /\ stack' = [stack EXCEPT ![t] = SetTop(@, [Top(@) EXCEPT !.pc = "work"])]
    /\ last' = NoCall
    /\ UNCHANGED <<panics, limit, is_running, pst, pmsg, aborted, raised, snapshot>>

\* do_me returns r.
WorkReturn(t, r) ==
    /\ AtPc(t, "work")
    /\ pst[t] = "none"
    /\ stack' = [stack EXCEPT ![t] = SetTop(@, [Top(@) EXCEPT !.result = Ok(r), !.seen = has_panicked, !.pc = "reconcile"])]
    /\ last' = NoCall
    /\ UNCHANGED <<panics, limit, is_running, lock, hook, pst, pmsg, aborted, raised, snapshot>>

\* do_me panics with payload m.
WorkPanic(t, m) ==
    /\ AtPc(t, "work")
    /\ pst[t] = "none"
    /\ Room
    /\ RaisePanic(t, m, stack[t])
    /\ last' = NoCall
    /\ UNCHANGED <<panics, limit, is_running, lock, hook, snapshot>>

\* A thread that is in no run (a worker) panics with payload m.
ThreadPanic(t, m) ==
    /\ stack[t] = <<>>
    /\ pst[t] = "none"
    /\ Room
    /\ RaisePanic(t, m, stack[t])
    /\ last' = NoCall
    /\ UNCHANGED <<panics, limit, is_running, lock, hook, snapshot>>

\* A register_panic that logs before it takes the mutex.
RegisterPanicLogsFirst(t) ==
    /\ pst[t] = "rp_lock"
    /\ pst' = [pst EXCEPT ![t] = "rp_log"]
    /\ last' = NoCall
    /\ UNCHANGED <<panics, limit, is_running, lock, hook, stack, pmsg, aborted, raised, snapshot>>

\* register_panic: state_mutex() (line 248).
RegisterPanicLock(t) ==
    /\ pst[t] = "rp_lock"
    /\ lock = ""
    /\ lock' = t
    /\ pst' = [pst EXCEPT ![t] = "rp_log"]
    /\ last' = NoCall
    /\ UNCHANGED <<panics, limit, is_running, hook, stack, pmsg, aborted, raised, snapshot>>

\* register_panic: log_error!(&state, ...) (line 249).
RegisterPanicLog(t) ==
    /\ pst[t] = "rp_log"
    /\ pst' = [pst EXCEPT ![t] = "rp_push"]
    /\ last' = Logged(t)
    /\ UNCHANGED <<panics, limit, is_running, lock, hook, stack, pmsg, aborted, raised, snapshot>>

\* register_panic: push, unlock; the hook returns and the panic unwinds.
RegisterPanicPush(t) ==
    /\ pst[t] = "rp_push"
    /\ lock = t
    /\ panics' = Push(panics, Panic(pmsg[t], t))
    /\ lock' = ""
    /\ pst' = [pst EXCEPT ![t] = "none"]
    /\ pmsg' = [pmsg EXCEPT ![t] = ""]
    /\ stack' = [stack EXCEPT ![t] = Unwind(@, pmsg[t], TRUE)]
    /\ last' = NoCall
    /\ UNCHANGED <<limit, is_running, hook, aborted, raised, snapshot>>

\* Lines 322-339: lock, match (result, state.panics.is_empty()). The first
\* arm returns at once (the mutex guard is dropped); the others go on with
\* the mutex held.
Reconcile(t) ==
    /\ AtPc(t, "reconcile")
    /\ lock = ""
    /\ LET f == Top(stack[t])
       IN  IF IsOk(f.result) /\ IsEmpty(panics)
           THEN /\ stack' = [stack EXCEPT ![t] = SetTop(@, Consumed([f EXCEPT !.ret = Some(f.result[2]), !.pc = "drop"]))]
                /\ last' = Reconciled(t, [f EXCEPT !.ret = Some(f.result[2])])
                /\ UNCHANGED lock
           ELSE IF IsOk(f.result)
           THEN /\ stack' = [stack EXCEPT ![t] = SetTop(@, [f EXCEPT !.swallowed = format_swallowed(f.dbg, f.result[2]), !.pc = "resolve"])]
                /\ last' = NoCall
                /\ lock' = t
           ELSE IF ~IsEmpty(panics)
           THEN /\ stack' = [stack EXCEPT ![t] = SetTop(@, [f EXCEPT !.pc = "resolve"])]
                /\ last' = NoCall
                /\ lock' = t
           ELSE /\ stack' = [stack EXCEPT ![t] = SetTop(@, [f EXCEPT !.pc = "unreachable"])]
                /\ last' = NoCall
                /\ lock' = t
    /\ UNCHANGED <<panics, limit, is_running, hook, pst, pmsg, aborted, raised, snapshot>>

\* A reconciliation that drops the mutex guard once it has taken the records.
ResolveTakeUnlocks(t) ==
    /\ AtPc(t, "resolve")
    /\ lock = t
    /\ panics' = <<>>
    /\ lock' = ""
    /\ stack' = [stack EXCEPT ![t] = SetTop(@, [Top(@) EXCEPT !.lim = limit, !.taken = panics, !.pc = "resolve_loop"])]
    /\ last' = NoCall
    /\ UNCHANGED <<limit, is_running, hook, pst, pmsg, aborted, raised, snapshot>>

\* Lines 341-349: log the count, read the limit, take the records out of
\* the registry (std::mem::take), with the mutex held.
ResolveTake(t) ==
    /\ AtPc(t, "resolve")
    /\ lock = t
    /\ panics' = <<>>
    /\ stack' = [stack EXCEPT ![t] = SetTop(@, [Top(@) EXCEPT !.lim = limit, !.taken = panics, !.pc = "resolve_loop"])]
    /\ last' = NoCall
    /\ UNCHANGED <<limit, is_running, lock, hook, pst, pmsg, aborted, raised, snapshot>>

\* A reconciliation without the std::mem::replace of line 398.
ResolveForgets(t) ==
    /\ AtPc(t, "resolve_loop")
    /\ lock = t
    /\ panics' = <<>>
    /\ lock' = ""
    /\ stack' = [stack EXCEPT ![t] = SetTop(@, Consumed([Top(@) EXCEPT !.taken = <<>>, !.ret = None, !.pc = "drop"]))]
    /\ last' = Reconciled(t, [Top(stack[t]) EXCEPT !.taken = <<>>, !.ret = None])
    /\ UNCHANGED <<limit, is_running, hook, pst, pmsg, aborted, raised, snapshot>>

\* Lines 351-402: resolve up to the limit and log every record, put the
\* records back, return None (the mutex guard is dropped on return).
Resolve(t) ==
    /\ AtPc(t, "resolve_loop")
    /\ lock = t
    /\ panics' = ResolveAll(Top(stack[t]).taken, Top(stack[t]).lim)
    /\ lock' = ""
    /\ stack' = [stack EXCEPT ![t] = SetTop(@, Consumed([Top(@) EXCEPT !.taken = <<>>, !.ret = None, !.pc = "drop"]))]
    /\ last' = Reconciled(t, [Top(stack[t]) EXCEPT !.taken = <<>>, !.ret = None])
    /\ UNCHANGED <<limit, is_running, hook, pst, pmsg, aborted, raised, snapshot>>

\* A drop without the take_hook of line 465.
GuardDropKeepsHook(t) ==
    /\ AtPc(t, "drop")
    /\ stack' = [stack EXCEPT ![t] = SetTop(@, [Top(@) EXCEPT !.pc = "drop_reset"])]
    /\ last' = NoCall
    /\ UNCHANGED <<panics, limit, is_running, lock, hook, pst, pmsg, aborted, raised, snapshot>>

\* A drop that takes the mutex first and calls take_hook under it.
GuardDropLocksFirst(t) ==
    /\ AtPc(t, "drop")
    /\ \/ /\ lock = ""
          /\ lock' = t
          /\ UNCHANGED <<hook, stack>>
       \/ /\ lock = t
          /\ HookIdle
          /\ hook' = "default"
          /\ stack' = [stack EXCEPT ![t] = SetTop(@, [Top(@) EXCEPT !.pc = "drop_reset"])]
          /\ UNCHANGED lock
    /\ last' = NoCall
    /\ UNCHANGED <<panics, limit, is_running, pst, pmsg, aborted, raised, snapshot>>

\* GlobalStateGuard::drop: take_hook.
GuardDropTakeHook(t) ==
    /\ AtPc(t, "drop")
    /\ HookIdle
    /\ hook' = "default"
    /\ stack' = [stack EXCEPT ![t] = SetTop(@, [Top(@) EXCEPT !.pc = "drop_reset"])]
    /\ last' = NoCall
    /\ UNCHANGED <<panics, limit, is_running, lock, pst, pmsg, aborted, raised, snapshot>>

\* A drop that also empties the registry.
GuardDropResetClears(t) ==
    /\ AtPc(t, "drop_reset")
    /\ lock = ""
    /\ limit' = DropLimit(limit)
    /\ is_running' = DropRunning(is_running)
    /\ panics' = <<>>
    /\ last' = Returned(t, Top(stack[t]), panics, limit)
    /\ stack' = [stack EXCEPT ![t] = Pop(@)]
    /\ UNCHANGED <<lock, hook, pst, pmsg, aborted, raised, snapshot>>

\* GlobalStateGuard::drop: the reset under the mutex; the call returns.
GuardDropReset(t) ==
    /\ AtPc(t, "drop_reset")
    /\ lock = ""
    /\ limit' = DropLimit(limit)
    /\ is_running' = DropRunning(is_running)
    /\ last' = Returned(t, Top(stack[t]), panics, limit)
    /\ stack' = [stack EXCEPT ![t] = Pop(@)]
    /\ UNCHANGED <<panics, lock, hook, pst, pmsg, aborted, raised, snapshot>>

\* panics() (lines 406-409), called from a closure or outside a run: a copy
\* of the records, taken under the mutex.
PanicsCall(t) ==
    /\ pst[t] = "none"
    /\ stack[t] = <<>> \/ AtPc(t, "work")
    /\ lock = ""
    /\ snapshot' = panics
    /\ last' = Queried(t)
    /\ UNCHANGED <<panics, limit, is_running, lock, hook, stack, pst, pmsg, aborted, raised>>

\* has_panicked() (lines 412-414), called from a closure or outside a run.
HasPanickedCall(t) ==
    /\ pst[t] = "none"
    /\ stack[t] = <<>> \/ AtPc(t, "work")
    /\ lock = ""
    /\ last' = Asked(t, has_panicked)
    /\ UNCHANGED <<panics, limit, is_running, lock, hook, stack, pst, pmsg, aborted, raised, snapshot>>

Next ==
    \E t \in Threads :
        \/ \E dbg \in BOOLEAN, cfg \in Budgets \cup {NoCfg} : CallRun(t, dbg, cfg)
        \/ apply_settings(t)
        \/ GuardInit(t)
        \/ GuardInitPanic(t)
        \/ GuardInitSetHook(t)
        \/ \E r \in Results : WorkReturn(t, r)
        \/ \E m \in WorkMsgs : WorkPanic(t, m)
        \/ \E m \in ThreadMsgs : ThreadPanic(t, m)
        \/ RegisterPanicLock(t)
        \/ RegisterPanicLog(t)
        \/ RegisterPanicPush(t)
        \/ Reconcile(t)
        \/ ResolveTake(t)
        \/ Resolve(t)
        \/ GuardDropTakeHook(t)
        \/ GuardDropReset(t)

Spec == Init /\ [][Next]_vars

\* The program with one supervising thread and one worker, whose threads
\* also call panics() and keep what it returned.
SnapThreads == {"t1", "w1"}

NextSnap ==
    \E t \in SnapThreads :
        \/ PanicsCall(t)
        \/ HasPanickedCall(t)
        \/ CallRun(t, TRUE, NoCfg)
        \/ GuardInit(t)
        \/ GuardInitPanic(t)
        \/ GuardInitSetHook(t)
        \/ WorkReturn(t, 5)
        \/ \E m \in WorkMsgs : WorkPanic(t, m)
        \/ \E m \in ThreadMsgs : ThreadPanic(t, m)
        \/ RegisterPanicLock(t)
        \/ RegisterPanicLog(t)
        \/ RegisterPanicPush(t)
        \/ Reconcile(t)
        \/ ResolveTake(t)
        \/ Resolve(t)
        \/ GuardDropTakeHook(t)
        \/ GuardDropReset(t)

SpecSnap == Init /\ [][NextSnap]_vars

\* The threads are scheduled fairly: a thread that can take a step of a call
\* it is in takes it, and a thread that waits for the mutex or for the hook
\* slot gets it when it is free again and again.
Fairness ==
    \A t \in SnapThreads :
        /\ SF_vars(RegisterPanicLock(t))
        /\ WF_vars(RegisterPanicLog(t))
        /\ WF_vars(RegisterPanicPush(t))
        /\ WF_vars(GuardInitSetHook(t))
        /\ SF_vars(Reconcile(t))
        /\ WF_vars(ResolveTake(t))
        /\ WF_vars(Resolve(t))
        /\ SF_vars(GuardDropTakeHook(t))
        /\ SF_vars(GuardDropReset(t))

SpecLive == Init /\ [][NextSnap]_vars /\ Fairness

\* ------------------------------------------------------------ properties

\* panics() (lines 406-409): a copy of the records.
panics_call == panics

\* The frames whose init has armed the scope and whose guard is not dropped.
ArmedPcs == {"set_hook", "work", "reconcile", "resolve", "resolve_loop", "unreachable", "drop", "drop_reset"}

ArmedFrames ==
    {k \in Threads \X (1..MaxDepth + 1) :
        k[2] \in DOMAIN stack[k[1]] /\ stack[k[1]][k[2]].pc \in ArmedPcs}

RecordsOf(t) == {i \in DOMAIN panics : panics[i].thread_id = t}

\* The threads that hold the records between std::mem::take (line 348) and
\* std::mem::replace (line 398).
Taking == {t \in Threads : AtPc(t, "resolve_loop")}

\* The records pushed since the last acquisition: state.panics, or the local
\* panics of the reconciliation that has taken them out.
Records ==
    IF Taking = {} THEN panics
    ELSE Top(stack[CHOOSE t \in Taking : TRUE]).taken

RecCount(t, m) ==
    Cardinality({i \in DOMAIN Records : Records[i].thread_id = t /\ Records[i].message = m})

InFlight(t, m) == IF pst[t] # "none" /\ pmsg[t] = m THEN 1 ELSE 0

RECURSIVE SumRaised(_)

SumRaised(S) ==
    IF S = {} THEN 0
    ELSE LET k == CHOOSE k \in S : TRUE IN raised[k] + SumRaised(S \ {k})

\* The number of records pushed since the last acquisition: the panics
\* handed to register_panic less those still inside it.
Pushed == SumRaised(DOMAIN raised) - Cardinality({t \in Threads : pst[t] # "none"})

\* C1: a run whose closure returned R while no thread panicked between the
\* acquisition and the release returns Some(R), and right after the call
\* has_panicked() is false and panics() is empty.
C1_NoPanicReturnsSome ==
    (last.ev = "Returned" /\ IsOk(last.f.result) /\ ~aborted)
        => /\ last.f.ret = Some(last.f.result[2])
           /\ ~has_panicked
           /\ panics_call = <<>>

C1_Witness ==
    /\ last.ev = "Returned"
    /\ last.f.result = Ok(100)
    /\ ~aborted
    /\ last.f.ret = Some(100)

\* C2: when the closure returns R while the registry holds the record of a
\* panic of another thread, the run returns None, no record carries the
\* caller's id, every record is one a thread handed to register_panic with
\* that id and payload, and the swallowed result was formatted by the entry
\* point's formatter (Debug or "<unprintable>").
C2_OtherThreadSwallows ==
    /\ (last.ev = "Returned" /\ IsOk(last.f.result) /\ last.f.seen)
        => /\ last.f.ret = None
           /\ panics_call # <<>>
           /\ \A i \in DOMAIN panics :
                /\ panics[i].thread_id # last.t
                /\ raised[<<panics[i].thread_id, panics[i].message>>] > 0
    /\ (last.ev = "Reconciled" /\ IsOk(last.f.result) /\ last.f.seen)
        => /\ last.f.ret = None
           /\ last.f.swallowed =
                (IF last.f.dbg THEN ToString(last.f.result[2]) ELSE "<unprintable>")

C2_Witness ==
    /\ last.ev = "Returned"
    /\ last.t = "t1"
    /\ last.f.result = Ok(5)
    /\ last.f.seen
    /\ last.f.ret = None
    /\ Len(panics) = 1
    /\ panics[1].thread_id = "w1"
    /\ panics[1].message = "uh oh"

\* C3: a run that returns Some(R) returns with an empty registry.
C3_SomeOnlyIfRegistryEmpty ==
    (last.ev = "Returned" /\ last.f.ret # None) => panics_call = <<>>

\* At most one frame holds an armed scope.
C4_ArmedAtMostOnce == Cardinality(ArmedFrames) <= 1

\* An init that finds is_running set changes nothing in the registry or the
\* hook, and its next step is the panic that takes the frame away.
C4_RejectedPanics ==
    \A t \in Threads :
        /\ (AtPc(t, "init") /\ is_running /\ stack'[t] # stack[t])
            => /\ stack'[t] = SetTop(stack[t], [Top(stack[t]) EXCEPT !.pc = "rejected"])
               /\ UNCHANGED <<panics, limit, is_running, hook>>
        /\ (AtPc(t, "rejected") /\ stack'[t] # stack[t])
            => /\ aborted'
               /\ Len(stack'[t]) = Len(stack[t]) - 1
               /\ UNCHANGED <<panics, limit, is_running, hook>>

\* C4: at most one scope is armed in every reachable state, and an init
\* that finds is_running set arms nothing and panics on the calling thread.
C4_NonReentrant == []C4_ArmedAtMostOnce /\ [][C4_RejectedPanics]_vars

C4_Witness ==
    /\ Len(stack["t1"]) = 2
    /\ AtPc("t1", "rejected")
    /\ Len(stack["t2"]) = 1
    /\ AtPc("t2", "rejected")

C6_ExactlyOneRecord ==
    /\ \A k \in DOMAIN raised : RecCount(k[1], k[2]) + InFlight(k[1], k[2]) = raised[k]
    /\ (last.ev = "Returned" /\ IsErr(last.f.result))
        => /\ last.f.ret = None
           /\ HookIdle
           /\ \E i \in DOMAIN panics :
                /\ RecordsOf(last.t) = {i}
                /\ panics[i].message = last.f.result[2]

C6_Witness ==
    /\ last.ev = "Returned"
    /\ last.t = "t1"
    /\ last.f.result = Err("me too")
    /\ Len(panics) = 3
    /\ RecCount("t1", "me too") = 1
    /\ RecCount("w1", "uh oh") = 2

\* C7: a successful init leaves the registry empty, so every record in the
\* registry was pushed since the last acquisition, and a run without a panic
\* ends with an empty registry whatever the runs before left.
C7_AcquireClears ==
    /\ last.ev = "Acquired" => (panics = <<>> /\ is_running)
    /\ \A i \in DOMAIN panics : raised[<<panics[i].thread_id, panics[i].message>>] > 0
    /\ (last.ev = "Returned" /\ ~aborted) => ~has_panicked

C7_Witness == last.ev = "Acquired" /\ last.cleared > 0 /\ panics = <<>>

\* C8: after a run that returned None with budget b, the record at index i
\* is resolved exactly when i < b.
C8_ResolvedIffBelowBudget ==
    (last.ev = "Returned" /\ last.f.ret = None)
        => \A i \in DOMAIN panics :
            panics[i].backtrace_resolved <=> (i - 1 < last.f.lim)

\* The drop of the guard leaves the records as it found them.
C9_ReleaseKeeps == last.ev = "Returned" => panics = last.panics

\* While no scope is armed only the clear of a successful init changes them.
C9_IdleKeeps == (~is_running /\ panics' # panics) => (last'.ev = "Acquired" /\ panics' = <<>>)

\* Only a call of panics() changes the copy a thread holds.
C9_SnapshotKeeps == snapshot' # snapshot => (last'.ev = "Queried" /\ snapshot' = panics)

\* C9: the drop of the guard leaves the records as it found them; while no
\* scope is armed the records change only by the clear of the next
\* successful init; and the copy panics() returned changes only by the next
\* call of panics(), not by later runs.
C9_RecordsOutliveScope ==
    []C9_ReleaseKeeps /\ [][C9_IdleKeeps]_vars /\ [][C9_SnapshotKeeps]_vars

C9_Witness ==
    /\ last.ev = "Returned"
    /\ last.f.ret = Some(5)
    /\ panics = <<>>
    /\ Len(snapshot) = 2
    /\ snapshot[1].backtrace_resolved
    /\ snapshot[2].thread_id = "w1"

\* C10: every release leaves the limit at the default, and a run started
\* without a Builder resolves with the default limit.
C10_DefaultRestored ==
    /\ last.ev = "Returned" => limit = DEFAULT_BACKTRACE_RESOLUTION_LIMIT
    /\ (last.ev = "Reconciled" /\ last.f.cfg = NoCfg /\ last.f.ret = None)
        => last.f.lim = DEFAULT_BACKTRACE_RESOLUTION_LIMIT

\* C11: the reconciliation of a run started through the Builder resolves
\* with the limit that Builder configured.
C11_ConfiguredBudgetUsed ==
    (last.ev = "Reconciled" /\ last.f.cfg # NoCfg /\ last.f.ret = None)
        => last.f.lim = last.f.cfg

\* When a call returns the scope is released.
C12_Released == last.ev = "Returned" => (~is_running /\ hook = "default" /\ lock = "")

\* An init that finds no run armed succeeds.
C12_AcquireSucceeds ==
    \A t \in Threads :
        (AtPc(t, "init") /\ ~is_running /\ stack'[t] # stack[t]) => last'.ev = "Acquired"

\* C12: once the closure of an armed run has ended, by returning or by
\* panicking, the call eventually returns; when it returns is_running is
\* false and register_panic is not the installed hook, and an init that
\* finds is_running false succeeds.
C12_ReleaseGuaranteed ==
    /\ []C12_Released
    /\ [][C12_AcquireSucceeds]_vars
    /\ \A t \in Callers : AtPc(t, "reconcile") ~> (last.ev = "Returned" /\ last.t = t)

C12_Witness ==
    /\ last.ev = "Returned"
    /\ last.t = "t1"
    /\ last.f.result = Err("me too")
    /\ ~is_running
    /\ hook = "default"

\* C13: no call reaches the (Err(_), true) arm: a call whose closure
\* panicked finds a record in the registry when it reconciles.
C13_ErrArmUnreachable ==
    \A t \in Threads :
        /\ ~AtPc(t, "unreachable")
        /\ (AtPc(t, "reconcile") /\ IsErr(Top(stack[t]).result)) => ~IsEmpty(panics)

C13_Witness ==
    /\ AtPc("t1", "reconcile")
    /\ Top(stack["t1"]).result = Err("me too")
    /\ AtPc("t2", "rejected")
    /\ Len(panics) = 2

\* C14 as stated: every change of the hook slot is made by a thread that
\* holds the mutex.
C14_HookChangesUnderLock ==
    [][hook' # hook => \E t \in Threads : lock = t /\ stack'[t] # stack[t]]_vars

\* set_hook runs in init's critical section, after is_running was set;
\* take_hook runs in drop while the thread does not hold the mutex and
\* is_running stays set; is_running changes only in a critical section.
C14_HookStep ==
    /\ \A t \in Threads :
        /\ (hook = "default" /\ hook' = "panik" /\ stack'[t] # stack[t])
            => (AtPc(t, "set_hook") /\ lock = t /\ is_running /\ is_running')
        /\ (hook = "panik" /\ hook' = "default" /\ stack'[t] # stack[t])
            => (AtPc(t, "drop") /\ lock # t /\ lock' # t /\ is_running /\ is_running')
    /\ is_running' # is_running => (lock = "" /\ hook' = hook)

\* C14, amended: the recorder is installed while the mutex is held, in the
\* critical section that sets is_running; it is uninstalled at the start of
\* drop, before the mutex is taken, and is_running is cleared afterwards in
\* a critical section of its own.
C14_InstallLockedUninstallUnlocked == [][C14_HookStep]_vars

C14_Witness ==
    /\ AtPc("t1", "drop_reset")
    /\ hook = "default"
    /\ is_running
    /\ lock = ""

C17_RecorderReturns ==
    \A t \in Threads : (pst[t] # "none") ~> (pst[t] = "none")

C17_Witness ==
    /\ pst["w1"] = "rp_lock"
    /\ lock = "t1"
    /\ AtPc("t1", "resolve_loop")

\* A record that appears is unresolved; a record changes only from
\* unresolved to resolved, and only in the step that ends the resolution.
C18_Step ==
    /\ \A i \in DOMAIN Records' :
        i \notin DOMAIN Records => ~Records'[i].backtrace_resolved
    /\ \A i \in DOMAIN Records' \cap DOMAIN Records :
        Records'[i].backtrace_resolved # Records[i].backtrace_resolved
            => /\ ~Records[i].backtrace_resolved
               /\ Taking # {}
               /\ last'.ev = "Reconciled"

\* C18: backtrace_resolved is false in a new record, becomes true only in
\* the reconciliation, and never becomes false again.
C18_ResolvedOnlyByReconciliation == [][C18_Step]_vars

C18_Witness ==
    /\ last.ev = "Reconciled"
    /\ Len(panics) = 2
    /\ panics[1].backtrace_resolved
    /\ ~panics[2].backtrace_resolved

\* C19: when a Builder call made while a run is armed is rejected, the
\* limit is what it was before the call.
C19_RejectedLeavesBudget ==
    \A t \in Threads :
        (AtPc(t, "rejected") /\ Top(stack[t]).prev # NoCfg) => limit = Top(stack[t]).prev

\* What a query returns: every record pushed since the last acquisition.
C20_QuerySeesAll ==
    /\ last.ev = "Queried" => Len(snapshot) = Pushed
    /\ last.ev = "Asked" => (last.r <=> Pushed > 0)

\* The records pushed since the last acquisition only grow in number.
C20_PushedGrows == last'.ev # "Acquired" => Pushed' >= Pushed

\* C20: has_panicked() is true and panics() returns every record once
\* records were pushed after an acquisition, until the next acquisition; no
\* query sees the registry without the records the reconciliation took out.
C20_Monotonic == []C20_QuerySeesAll /\ [][C20_PushedGrows]_vars

C20_Witness ==
    /\ last.ev = "Asked"
    /\ last.t = "w1"
    /\ last.r
    /\ AtPc("t1", "drop")
    /\ panics[1].backtrace_resolved

\* While register_panic is the installed hook a run is armed.
C21_Installed == hook = "panik" => is_running

\* The hook is installed when is_running is set and stays set, is_running
\* is cleared when the hook is the default one, and the steps of a rejected
\* init leave the hook slot alone.
C21_Step ==
    /\ (hook = "default" /\ hook' = "panik") => (is_running /\ is_running')
    /\ (is_running /\ ~is_running') => (hook = "default" /\ hook' = "default")
    /\ \A t \in Threads :
        (((AtPc(t, "init") /\ is_running) \/ AtPc(t, "rejected")) /\ stack'[t] # stack[t])
            => hook' = hook

\* C21: in every reachable state, if register_panic is the installed hook
\* then is_running is true: it is installed only after a successful init
\* has set is_running, it is taken out before drop clears is_running, and a
\* rejected init neither installs nor takes it out.
C21_HookImpliesRunning == []C21_Installed /\ [][C21_Step]_vars

C21_Witness ==
    /\ hook = "panik"
    /\ is_running
    /\ AtPc("t1", "work")
    /\ AtPc("t2", "rejected")

====
